---- MODULE Spec2Model ----
(***************************************************************************)
(* Model of the executable material of the anthony-chege.me repository:    *)
(*   - the product service and the order service of the Go/RabbitMQ        *)
(*     tutorial (src/data/blog/microservices-with-go-and-rabbitmq.md),     *)
(*   - the MyNFT contract (src/unnamed/part_000,                           *)
(*     src/data/blog/creating-an-NFT.md),                                  *)
(*   - the front-matter blocks of the blog posts.                          *)
(***************************************************************************)
EXTENDS Integers, Sequences, FiniteSets, TLC

(***************************************************************************)
(* Bounds                                                                  *)
(***************************************************************************)
\* number of messages clients publish to product-service-queue
MaxMsgs == 2
\* largest value time.Now() takes
MaxClock == 1
\* number of mintNFT calls
MaxMints == 3

Times == 0..MaxClock

PQ == "product-service-queue"
OQ == "order-service-queue"

(***************************************************************************)
(* JSON texts.  A text is a record tagged by t: a syntax error ("bad"),    *)
(* null, a string, a number, an array or an object (a function from its    *)
(* keys to texts).                                                         *)
(***************************************************************************)
JBad == [t |-> "bad"]
JNull == [t |-> "null"]
JStr(x) == [t |-> "str", s |-> x]
JNum(x) == [t |-> "num", n |-> x]
JArr(x) == [t |-> "arr", a |-> x]
JObj(x) == [t |-> "obj", o |-> x]

\* Go values: a []string is nil or a sequence of strings
NilSlice == [isNil |-> TRUE, elems |-> <<>>]
Slice(x) == [isNil |-> FALSE, elems |-> x]

\* MarshalStrings writing the elements in reverse order
MarshalStrings_reversed(sl) ==
  IF sl.isNil THEN JNull
  ELSE JArr([i \in 1..Len(sl.elems) |-> JStr(sl.elems[Len(sl.elems) + 1 - i])])

\* json.Marshal of a []string: nil gives null, otherwise an array of strings
MarshalStrings(sl) ==
  IF sl.isNil THEN JNull
  ELSE JArr([i \in 1..Len(sl.elems) |-> JStr(sl.elems[i])])

\* json.Unmarshal of one text into a Go string: null leaves the zero value
UnmarshalString(j) ==
  CASE j.t = "str" -> [err |-> FALSE, val |-> j.s]
    [] j.t = "null" -> [err |-> FALSE, val |-> ""]
    [] OTHER -> [err |-> TRUE, val |-> ""]

\* json.Unmarshal(d.Body, &productIDs) with productIDs a fresh nil []string
UnmarshalStrings(j) ==
  CASE j.t = "arr" ->
         LET r == [i \in 1..Len(j.a) |-> UnmarshalString(j.a[i])]
         IN [err |-> \E i \in 1..Len(j.a) : r[i].err,
             val |-> Slice([i \in 1..Len(j.a) |-> r[i].val])]
    [] j.t = "null" -> [err |-> FALSE, val |-> NilSlice]
    [] OTHER -> [err |-> TRUE, val |-> NilSlice]

\* json.Unmarshal of one text into a float64
UnmarshalNumber(j) ==
  CASE j.t = "num" -> [err |-> FALSE, val |-> j.n]
    [] j.t = "null" -> [err |-> FALSE, val |-> 0]
    [] OTHER -> [err |-> TRUE, val |-> 0]

\* the text of a key of an object, null when the key is absent
Field(obj, k) == IF k \in DOMAIN obj THEN obj[k] ELSE JNull
(***************************************************************************)
(* product-service/product.go                                              *)
(***************************************************************************)
\* prices are counted in hundredths: 19.99 is 1999
SamplePrice == 1999

\* the zero value of Product
ZeroProduct == [ID |-> "", Name |-> "", Description |-> "", Price |-> 0]

\* createProduct storing the description as the name and the name as the
\* description
createProduct_swapped(id, name, desc, price) ==
  [ID |-> id, Name |-> desc, Description |-> name, Price |-> price]

createProduct(id, name, desc, price) ==
  [ID |-> id, Name |-> name, Description |-> desc, Price |-> price]

\* getProduct returning the sample product under the ID "1"
getProduct_fixedId(id) ==
  [ID |-> "1", Name |-> "Sample Product",
   Description |-> "This is a sample product.", Price |-> SamplePrice]

getProduct(id) ==
  [ID |-> id, Name |-> "Sample Product",
   Description |-> "This is a sample product.", Price |-> SamplePrice]

\* json.Marshal of a Product, by its json tags
MarshalProduct(p) ==
  JObj([k \in {"id", "name", "description", "price"} |->
          CASE k = "id" -> JStr(p.ID)
            [] k = "name" -> JStr(p.Name)
            [] k = "description" -> JStr(p.Description)
            [] OTHER -> JNum(p.Price)])

\* c.ShouldBindJSON(&p) with p a zero Product
BindProduct(j) ==
  CASE j.t = "obj" ->
         LET id == UnmarshalString(Field(j.o, "id"))
             name == UnmarshalString(Field(j.o, "name"))
             desc == UnmarshalString(Field(j.o, "description"))
             price == UnmarshalNumber(Field(j.o, "price"))
         IN [err |-> id.err \/ name.err \/ desc.err \/ price.err,
             val |-> [ID |-> id.val, Name |-> name.val,
                      Description |-> desc.val, Price |-> price.val]]
    [] j.t = "null" -> [err |-> FALSE, val |-> ZeroProduct]
    [] OTHER -> [err |-> TRUE, val |-> ZeroProduct]

(***************************************************************************)
(* order-service/order.go.  The post gives two listings of the file: the   *)
(* first declares Order with three fields, the second adds CreatedAt.      *)
(* Listings is the set of the two; a build compiles one of them.           *)
(***************************************************************************)
Listings == {"first", "second"}

\* the zero value of time.Time
ZeroTime == -1

\* an RFC 3339 string, the JSON form of a time.Time
JTime(x) == [t |-> "str", time |-> x]

\* the zero value of Order
ZeroOrder(l) ==
  IF l = "first"
  THEN [ID |-> "", ProductIDs |-> NilSlice, Status |-> ""]
  ELSE [ID |-> "", ProductIDs |-> NilSlice, Status |-> "", CreatedAt |-> ZeroTime]

\* createOrder of listing l, called when time.Now() is now
createOrder(l, id, productIDs, status, now) ==
  IF l = "first"
  THEN [ID |-> id, ProductIDs |-> productIDs, Status |-> status]
  ELSE [ID |-> id, ProductIDs |-> productIDs, Status |-> status,
        CreatedAt |-> now]

\* json.Marshal of an Order, by its json tags
MarshalOrder(o) ==
  JObj([k \in (IF "CreatedAt" \in DOMAIN o
               THEN {"id", "product_ids", "status", "created_at"}
               ELSE {"id", "product_ids", "status"}) |->
          CASE k = "id" -> JStr(o.ID)
            [] k = "product_ids" -> MarshalStrings(o.ProductIDs)
            [] k = "status" -> JStr(o.Status)
            [] OTHER -> JTime(o.CreatedAt)])

\* json.Unmarshal of one text into a time.Time
UnmarshalTime(j) ==
  CASE j.t = "str" /\ "time" \in DOMAIN j -> [err |-> FALSE, val |-> j.time]
    [] j.t = "null" -> [err |-> FALSE, val |-> ZeroTime]
    [] OTHER -> [err |-> TRUE, val |-> ZeroTime]

\* c.ShouldBindJSON(&o) with o a zero Order of listing l
BindOrder(l, j) ==
  CASE j.t = "obj" ->
         LET id == UnmarshalString(Field(j.o, "id"))
             pids == UnmarshalStrings(Field(j.o, "product_ids"))
             status == UnmarshalString(Field(j.o, "status"))
             at == UnmarshalTime(Field(j.o, "created_at"))
         IN IF l = "first"
            THEN [err |-> id.err \/ pids.err \/ status.err,
                  val |-> [ID |-> id.val, ProductIDs |-> pids.val,
                           Status |-> status.val]]
            ELSE [err |-> id.err \/ pids.err \/ status.err \/ at.err,
                  val |-> [ID |-> id.val, ProductIDs |-> pids.val,
                           Status |-> status.val, CreatedAt |-> at.val]]
    [] j.t = "null" -> [err |-> FALSE, val |-> ZeroOrder(l)]
    [] OTHER -> [err |-> TRUE, val |-> ZeroOrder(l)]

(***************************************************************************)
(* Inputs                                                                  *)
(***************************************************************************)
\* bodies of the messages clients publish to product-service-queue
MsgBodies ==
  { JArr(<<JStr("p2"), JStr("p1")>>), JNull, JObj([id |-> JStr("p1")]) }

\* bodies of POST /product requests
ProductBodies ==
  { JBad,
    JObj([id |-> JStr("p1"), name |-> JStr("n1"),
          description |-> JStr("d1"), price |-> JNum(500)]),
    JObj([id |-> JStr("p2")]),
    JObj([id |-> JNum(7)]) }

\* bodies of POST /order requests
OrderBodies ==
  { JBad,
    JObj([id |-> JStr("o1"), product_ids |-> JArr(<<JStr("p1")>>),
          status |-> JStr("NEW")]),
    JObj([id |-> JStr("o2")]),
    JObj([product_ids |-> JStr("p1")]) }

\* the :id of GET /product/:id requests
PathIDs == {"p1", "zz"}

(***************************************************************************)
(* State                                                                   *)
(***************************************************************************)
VARIABLES
  declared,    \* RabbitMQ: the queues that have been declared
  queue,       \* RabbitMQ: the messages of each queue, oldest first
  published,   \* bodies of the messages clients have published, in order
  consumer,    \* RabbitMQ: the order service's consumer is registered
  msgs,        \* order service: deliveries waiting in the msgs channel
  ps,          \* product service: position of main
  os,          \* order service: position of main
  orderGo,     \* order service: the listing of order.go that is built
  cpc,         \* order service: position of the consumer goroutine
  d,           \* consumer goroutine: the delivery being handled
  productIDs,  \* consumer goroutine: the unmarshalled product IDs
  order,       \* consumer goroutine: the created order
  received,    \* the deliveries the consumer goroutine received, in order
  steps,       \* for each service, the start-up steps it completed
  lastHttp,    \* the most recent HTTP exchange
  _tokenIds,   \* MyNFT: _tokenIds._value
  tokenOwner,  \* MyNFT: owner of each existing token
  tokenURIs,   \* MyNFT: URI of each token that has one
  calls,       \* MyNFT: the mintNFT calls made so far
  post,        \* front-matter reader: index of the post being read
  field,       \* front-matter reader: the key being read
  pos,         \* front-matter reader: characters of the value read so far
  lex,         \* front-matter reader: state of the value scanner
  verdict,     \* front-matter reader: result for each post read
  arr,         \* data reader: index of the data array being read
  entry,       \* data reader: index of the entry being read
  upos,        \* data reader: characters of the entry's link read so far
  ulex,        \* data reader: state of the link scanner
  checked      \* data reader: result for each entry read

svcVars == <<declared, queue, published, consumer, msgs, ps, os, orderGo, cpc, d,
             productIDs, order, received, steps, lastHttp>>
nftVars == <<_tokenIds, tokenOwner, tokenURIs, calls>>
fmVars == <<post, field, pos, lex, verdict>>
dataVars == <<arr, entry, upos, ulex, checked>>
vars == <<svcVars, nftVars, fmVars, dataVars>>

NoMsg == [body |-> JNull, tag |-> 0]
NoOrder == [ID |-> "none"]
NoHttp == [route |-> "none", req |-> JNull, status |-> 0, body |-> JNull,
           calls |-> <<>>]

SvcInit ==
  /\ declared = {}
  /\ queue = [q \in {PQ, OQ} |-> <<>>]
  /\ published = <<>>
  /\ consumer = FALSE
  /\ msgs = <<>>
  /\ ps = "dial"
  /\ os = "dial"
  /\ orderGo \in Listings
  /\ cpc = "off"
  /\ d = NoMsg
  /\ productIDs = NilSlice
  /\ order = NoOrder
  /\ received = <<>>
  /\ steps = [s \in {"product", "order"} |-> <<>>]
  /\ lastHttp = NoHttp

(***************************************************************************)
(* failOnError(err, msg): log.Fatalf ends the process when err is not nil. *)
(* The result is the position main or the goroutine moves to.              *)
(***************************************************************************)
\* failOnError that logs the error and returns
failOnError_returns(err, next) == next

failOnError(err, next) == IF err THEN "dead" ELSE next

\* the steps of a service after one more start-up call returned err
Done(s, err, step) ==
  IF err THEN steps ELSE [steps EXCEPT ![s] = Append(@, step)]

(***************************************************************************)
(* product-service/main.go                                                 *)
(***************************************************************************)
PsDial ==
  /\ ps = "dial"
  /\ \E err \in BOOLEAN :
       /\ ps' = failOnError(err, "channel")
       /\ steps' = Done("product", err, "connect")
  /\ UNCHANGED <<declared, queue, published, consumer, msgs, os, orderGo, cpc, d,
                 productIDs, order, received, lastHttp>>

PsChannel ==
  /\ ps = "channel"
  /\ \E err \in BOOLEAN :
       /\ ps' = failOnError(err, "declare")
       /\ steps' = Done("product", err, "channel")
  /\ UNCHANGED <<declared, queue, published, consumer, msgs, os, orderGo, cpc, d,
                 productIDs, order, received, lastHttp>>

PsQueueDeclare ==
  /\ ps = "declare"
  /\ \E err \in BOOLEAN :
       /\ ps' = failOnError(err, "routes")
       /\ steps' = Done("product", err, "declare")
       /\ declared' = IF err THEN declared ELSE declared \cup {PQ}
  /\ UNCHANGED <<queue, published, consumer, msgs, os, orderGo, cpc, d,
                 productIDs, order, received, lastHttp>>

PsRoutes ==
  /\ ps = "routes"
  /\ ps' = "run"
  /\ steps' = Done("product", FALSE, "routes")
  /\ UNCHANGED <<declared, queue, published, consumer, msgs, os, orderGo, cpc, d,
                 productIDs, order, received, lastHttp>>

\* router.Run(":8080"): serves, or returns an error and main returns
PsRun ==
  /\ ps = "run"
  /\ \E err \in BOOLEAN :
       /\ ps' = IF err THEN "exited" ELSE "serving"
       /\ steps' = Done("product", err, "serve")
  /\ UNCHANGED <<declared, queue, published, consumer, msgs, os, orderGo, cpc, d,
                 productIDs, order, received, lastHttp>>

PostProduct ==
  /\ ps = "serving"
  /\ \E j \in ProductBodies :
       LET p == BindProduct(j)
           product == createProduct(p.val.ID, p.val.Name, p.val.Description,
                                    p.val.Price)
       IN lastHttp' =
            IF p.err
            THEN [route |-> "POST /product", req |-> j, status |-> 400,
                  body |-> JObj([error |-> JStr("bind")]), calls |-> <<>>]
            ELSE [route |-> "POST /product", req |-> j, status |-> 200,
                  body |-> MarshalProduct(product),
                  calls |-> <<[fn |-> "createProduct", arg |-> p.val]>>]
  /\ UNCHANGED <<declared, queue, published, consumer, msgs, ps, os, orderGo, cpc,
                 d, productIDs, order, received, steps>>

GetProduct ==
  /\ ps = "serving"
  /\ \E id \in PathIDs :
       lastHttp' = [route |-> "GET /product/:id", req |-> JStr(id),
                    status |-> 200, body |-> MarshalProduct(getProduct(id)),
                    calls |-> <<[fn |-> "getProduct", arg |-> id]>>]
  /\ UNCHANGED <<declared, queue, published, consumer, msgs, ps, os, orderGo, cpc,
                 d, productIDs, order, received, steps>>

(***************************************************************************)
(* RabbitMQ and its clients                                                *)
(***************************************************************************)
\* a client publishes to product-service-queue through the default
\* exchange, which drops the message when the queue does not exist
ClientPublish ==
  /\ Len(published) < MaxMsgs
  /\ \E b \in MsgBodies :
       /\ published' = Append(published, b)
       /\ queue' = IF PQ \in declared
                   THEN [queue EXCEPT ![PQ] =
                           Append(@, [body |-> b, tag |-> Len(published) + 1])]
                   ELSE queue
  /\ UNCHANGED <<declared, consumer, msgs, ps, os, orderGo, cpc, d,
                 productIDs, order, received, steps, lastHttp>>

\* a broker that keeps the message on the queue until it is acknowledged
Deliver_keeps ==
  /\ consumer
  /\ queue[PQ] # <<>>
  /\ msgs' = Append(msgs, Head(queue[PQ]))
  /\ UNCHANGED <<declared, queue, published, consumer, ps, os, orderGo, cpc, d,
                 productIDs, order, received, steps, lastHttp>>

\* the broker hands the oldest message to the registered consumer; with
\* auto-ack the message leaves the queue at once
Deliver ==
  /\ consumer
  /\ queue[PQ] # <<>>
  /\ msgs' = Append(msgs, Head(queue[PQ]))
  /\ queue' = [queue EXCEPT ![PQ] = Tail(@)]
  /\ UNCHANGED <<declared, published, consumer, ps, os, orderGo, cpc, d,
                 productIDs, order, received, steps, lastHttp>>

(***************************************************************************)
(* order-service/main.go                                                   *)
(***************************************************************************)
\* the order-service process ends: its goroutines stop, its connection
\* closes, the consumer is cancelled and buffered deliveries are lost
OsEnds ==
  /\ cpc' = "off"
  /\ consumer' = FALSE
  /\ msgs' = <<>>
  /\ d' = NoMsg
  /\ productIDs' = NilSlice
  /\ order' = NoOrder

OsDial ==
  /\ os = "dial"
  /\ \E err \in BOOLEAN :
       /\ os' = failOnError(err, "channel")
       /\ steps' = Done("order", err, "connect")
  /\ UNCHANGED <<declared, queue, published, consumer, msgs, ps, orderGo, cpc, d,
                 productIDs, order, received, lastHttp>>

OsChannel ==
  /\ os = "channel"
  /\ \E err \in BOOLEAN :
       /\ os' = failOnError(err, "declare")
       /\ steps' = Done("order", err, "channel")
  /\ UNCHANGED <<declared, queue, published, consumer, msgs, ps, orderGo, cpc, d,
                 productIDs, order, received, lastHttp>>

OsQueueDeclare ==
  /\ os = "declare"
  /\ \E err \in BOOLEAN :
       /\ os' = failOnError(err, "consume")
       /\ steps' = Done("order", err, "declare")
       /\ declared' = IF err THEN declared ELSE declared \cup {OQ}
  /\ UNCHANGED <<queue, published, consumer, msgs, ps, orderGo, cpc, d,
                 productIDs, order, received, lastHttp>>

\* ch.Consume on a broker that registers a consumer on a queue that does
\* not exist
OsConsume_anyQueue ==
  /\ os = "consume"
  /\ \E err \in BOOLEAN :
       /\ os' = failOnError(err, "go")
       /\ steps' = Done("order", err, "consume")
       /\ consumer' = ~err
  /\ UNCHANGED <<declared, queue, published, msgs, ps, orderGo, cpc, d,
                 productIDs, order, received, lastHttp>>

\* ch.Consume("product-service-queue", ...): fails when the queue does not
\* exist, and may fail otherwise
OsConsume ==
  /\ os = "consume"
  /\ \E err \in BOOLEAN :
       /\ PQ \notin declared => err
       /\ os' = failOnError(err, "go")
       /\ steps' = Done("order", err, "consume")
       /\ consumer' = ~err
  /\ UNCHANGED <<declared, queue, published, msgs, ps, orderGo, cpc, d,
                 productIDs, order, received, lastHttp>>

\* go func() { for d := range msgs { ... } }()
OsGo ==
  /\ os = "go"
  /\ os' = "routes"
  /\ cpc' = "recv"
  /\ UNCHANGED <<declared, queue, published, consumer, msgs, ps, orderGo, d,
                 productIDs, order, received, steps, lastHttp>>

OsRoutes ==
  /\ os = "routes"
  /\ os' = "run"
  /\ steps' = Done("order", FALSE, "routes")
  /\ UNCHANGED <<declared, queue, published, consumer, msgs, ps, orderGo, cpc, d,
                 productIDs, order, received, lastHttp>>

\* router.Run(":8081"): serves, or returns an error and main returns
OsRun ==
  /\ os = "run"
  /\ \E err \in BOOLEAN :
       /\ steps' = Done("order", err, "serve")
       /\ IF err
          THEN os' = "exited" /\ OsEnds
          ELSE os' = "serving" /\
               UNCHANGED <<cpc, consumer, msgs, d, productIDs, order>>
  /\ UNCHANGED <<declared, queue, published, ps, orderGo, received, lastHttp>>

\* a loop that takes the newest buffered delivery first
ConRecv_newest ==
  /\ cpc = "recv"
  /\ msgs # <<>>
  /\ d' = msgs[Len(msgs)]
  /\ msgs' = SubSeq(msgs, 1, Len(msgs) - 1)
  /\ received' = Append(received, msgs[Len(msgs)])
  /\ cpc' = "unmarshal"
  /\ UNCHANGED <<declared, queue, published, consumer, ps, os, orderGo,
                 productIDs, order, steps, lastHttp>>

\* for d := range msgs
ConRecv ==
  /\ cpc = "recv"
  /\ msgs # <<>>
  /\ d' = Head(msgs)
  /\ msgs' = Tail(msgs)
  /\ received' = Append(received, Head(msgs))
  /\ cpc' = "unmarshal"
  /\ UNCHANGED <<declared, queue, published, consumer, ps, os, orderGo,
                 productIDs, order, steps, lastHttp>>

\* the consumer that logs an Unmarshal error and goes on with the message
ConUnmarshal_continues ==
  /\ cpc = "unmarshal"
  /\ LET r == UnmarshalStrings(d.body)
     IN /\ productIDs' = IF r.err THEN productIDs ELSE r.val
        /\ cpc' = "create"
        /\ UNCHANGED <<os, consumer, msgs, d, order>>
  /\ UNCHANGED <<declared, queue, published, ps, orderGo, received, steps,
                 lastHttp>>

\* err = json.Unmarshal(d.Body, &productIDs); failOnError(err, ...)
ConUnmarshal ==
  /\ cpc = "unmarshal"
  /\ LET r == UnmarshalStrings(d.body)
     IN IF r.err
        THEN os' = failOnError(TRUE, os) /\ OsEnds
        ELSE /\ productIDs' = r.val
             /\ cpc' = "create"
             /\ UNCHANGED <<os, consumer, msgs, d, order>>
  /\ UNCHANGED <<declared, queue, published, ps, orderGo, received, steps,
                 lastHttp>>

\* order := createOrder("1", productIDs, "CREATED")
ConCreate ==
  /\ cpc = "create"
  /\ \E now \in Times :
       order' = createOrder(orderGo, "1", productIDs, "CREATED", now)
  /\ cpc' = "publish"
  /\ UNCHANGED <<declared, queue, published, consumer, msgs, ps, os, orderGo, d,
                 productIDs, received, steps, lastHttp>>

\* body, err := json.Marshal(order); err = ch.Publish("", q.Name, ...)
ConPublish ==
  /\ cpc = "publish"
  /\ \E err \in BOOLEAN :
       IF err
       THEN os' = failOnError(TRUE, os) /\ OsEnds /\ UNCHANGED queue
       ELSE /\ queue' = [queue EXCEPT ![OQ] =
                           Append(@, [body |-> MarshalOrder(order), tag |-> d.tag])]
            /\ cpc' = "recv"
            /\ d' = NoMsg
            /\ productIDs' = NilSlice
            /\ order' = NoOrder
            /\ UNCHANGED <<os, consumer, msgs>>
  /\ UNCHANGED <<declared, published, ps, orderGo, received, steps, lastHttp>>

\* the POST /order handler without the return after the 400 response
PostOrder_noReturn ==
  /\ os = "serving"
  /\ \E j \in OrderBodies, now \in Times :
       LET o == BindOrder(orderGo, j)
           created == createOrder(orderGo, o.val.ID, o.val.ProductIDs,
                                  o.val.Status, now)
       IN lastHttp' =
            [route |-> "POST /order", req |-> j,
             status |-> IF o.err THEN 400 ELSE 200,
             body |-> IF o.err THEN JObj([error |-> JStr("bind")])
                      ELSE JObj([message |-> JStr("Order created successfully"),
                                 order |-> MarshalOrder(created)]),
             calls |-> <<[fn |-> "createOrder", arg |-> o.val,
                          ret |-> created]>>]
  /\ UNCHANGED <<declared, queue, published, consumer, msgs, ps, os, orderGo, cpc,
                 d, productIDs, order, received, steps>>

\* the POST /order handler with the slice productIDs declared once for the
\* process and used by the handler too
PostOrder_sharesProductIDs ==
  /\ os = "serving"
  /\ \E j \in OrderBodies, now \in Times :
       LET o == BindOrder(orderGo, j)
           created == createOrder(orderGo, o.val.ID, productIDs,
                                  o.val.Status, now)
       IN lastHttp' =
            IF o.err
            THEN [route |-> "POST /order", req |-> j, status |-> 400,
                  body |-> JObj([error |-> JStr("bind")]), calls |-> <<>>]
            ELSE [route |-> "POST /order", req |-> j, status |-> 200,
                  body |-> JObj([message |-> JStr("Order created successfully"),
                                 order |-> MarshalOrder(created)]),
                  calls |-> <<[fn |-> "createOrder", arg |-> o.val,
                               ret |-> created]>>]
  /\ UNCHANGED <<declared, queue, published, consumer, msgs, ps, os, orderGo, cpc,
                 d, productIDs, order, received, steps>>

PostOrder ==
  /\ os = "serving"
  /\ \E j \in OrderBodies, now \in Times :
       LET o == BindOrder(orderGo, j)
           created == createOrder(orderGo, o.val.ID, o.val.ProductIDs,
                                  o.val.Status, now)
       IN lastHttp' =
            IF o.err
            THEN [route |-> "POST /order", req |-> j, status |-> 400,
                  body |-> JObj([error |-> JStr("bind")]), calls |-> <<>>]
            ELSE [route |-> "POST /order", req |-> j, status |-> 200,
                  body |-> JObj([message |-> JStr("Order created successfully"),
                                 order |-> MarshalOrder(created)]),
                  calls |-> <<[fn |-> "createOrder", arg |-> o.val,
                               ret |-> created]>>]
  /\ UNCHANGED <<declared, queue, published, consumer, msgs, ps, os, orderGo, cpc,
                 d, productIDs, order, received, steps>>

SvcNext ==
  \/ PsDial \/ PsChannel \/ PsQueueDeclare \/ PsRoutes \/ PsRun
  \/ PostProduct \/ GetProduct
  \/ ClientPublish \/ Deliver
  \/ OsDial \/ OsChannel \/ OsQueueDeclare \/ OsConsume \/ OsGo \/ OsRoutes
  \/ OsRun
  \/ ConRecv \/ ConUnmarshal \/ ConCreate \/ ConPublish
  \/ PostOrder

(***************************************************************************)
(* MyNFT (Solidity).  A call runs as one transaction on the contract       *)
(* state c: a failed require reverts it, and the state is left as it was   *)
(* before the call.  trace lists the operations the call performed.        *)
(***************************************************************************)
ZeroAddress == "0x0"
Addresses == {ZeroAddress, "alice", "bob"}
Callers == {"alice", "bob"}
URIs == {"u1", "u2"}

\* increment adding two
increment_byTwo(c) ==
  IF c.reverted THEN c
  ELSE [c EXCEPT !.ids = @ + 2,
                 !.trace = Append(@, [op |-> "increment", value |-> c.ids + 2])]

\* Counters.increment and Counters.current
increment(c) ==
  IF c.reverted THEN c
  ELSE [c EXCEPT !.ids = @ + 1,
                 !.trace = Append(@, [op |-> "increment", value |-> c.ids + 1])]

current(c) == c.ids

\* ERC721._exists
_exists(c, tokenId) == tokenId \in DOMAIN c.owner

\* ERC721._mint: require(to != address(0)); require(!_exists(tokenId))
_mint(c, to, tokenId) ==
  IF c.reverted THEN c
  ELSE IF to = ZeroAddress \/ _exists(c, tokenId)
  THEN [c EXCEPT !.reverted = TRUE]
  ELSE [c EXCEPT !.owner = [k \in DOMAIN c.owner \cup {tokenId} |->
                              IF k = tokenId THEN to ELSE c.owner[k]],
                 !.trace = Append(@, [op |-> "mint", to |-> to, id |-> tokenId])]

\* _setTokenURI writing the URI to every token
_setTokenURI_all(c, tokenId, uri) ==
  IF c.reverted THEN c
  ELSE IF ~_exists(c, tokenId)
  THEN [c EXCEPT !.reverted = TRUE]
  ELSE [c EXCEPT !.uris = [k \in DOMAIN c.uris \cup {tokenId} |-> uri],
                 !.trace = Append(@, [op |-> "setTokenURI", id |-> tokenId,
                                      uri |-> uri])]

\* ERC721Metadata._setTokenURI: require(_exists(tokenId))
_setTokenURI(c, tokenId, uri) ==
  IF c.reverted THEN c
  ELSE IF ~_exists(c, tokenId)
  THEN [c EXCEPT !.reverted = TRUE]
  ELSE [c EXCEPT !.uris = [k \in DOMAIN c.uris \cup {tokenId} |->
                             IF k = tokenId THEN uri ELSE c.uris[k]],
                 !.trace = Append(@, [op |-> "setTokenURI", id |-> tokenId,
                                      uri |-> uri])]

\* mintNFT reading the counter before incrementing it
mintNFT_staleId(c, recipient, tokenURI) ==
  LET newItemId == current(c)
      c1 == increment(c)
      c2 == _mint(c1, recipient, newItemId)
      c3 == _setTokenURI(c2, newItemId, tokenURI)
  IN [state |-> c3, ret |-> newItemId]

\* the account that deploys the contract
Deployer == "alice"

\* mintNFT with require(msg.sender == deployer)
mintNFT_onlyDeployer(c, recipient, tokenURI) ==
  LET c0 == IF c.sender = Deployer THEN c ELSE [c EXCEPT !.reverted = TRUE]
      c1 == increment(c0)
      newItemId == current(c1)
      c2 == _mint(c1, recipient, newItemId)
      c3 == _setTokenURI(c2, newItemId, tokenURI)
  IN [state |-> c3, ret |-> newItemId]

\* mintNFT(recipient, tokenURI) on state c: the state it ends in and the
\* value it returns
mintNFT(c, recipient, tokenURI) ==
  LET c1 == increment(c)
      newItemId == current(c1)
      c2 == _mint(c1, recipient, newItemId)
      c3 == _setTokenURI(c2, newItemId, tokenURI)
  IN [state |-> c3, ret |-> newItemId]

\* the contract state as a transaction sees it
Contract ==
  [ids |-> _tokenIds, owner |-> tokenOwner, uris |-> tokenURIs,
   trace |-> <<>>, reverted |-> FALSE]

\* the contract state as a transaction sent by this account sees it
Call(sender) ==
  [k \in DOMAIN Contract \cup {"sender"} |->
     IF k = "sender" THEN sender ELSE Contract[k]]

\* constructor() ERC721Full("MyNFT", "MNFT")
NftInit ==
  /\ _tokenIds = 0
  /\ tokenOwner = <<>>
  /\ tokenURIs = <<>>
  /\ calls = <<>>

\* an account sends a mintNFT transaction
MintNFT ==
  /\ Len(calls) < MaxMints
  /\ \E caller \in Callers, recipient \in Addresses, uri \in URIs :
       LET r == mintNFT(Call(caller), recipient, uri)
           ok == ~r.state.reverted
       IN /\ _tokenIds' = IF ok THEN r.state.ids ELSE _tokenIds
          /\ tokenOwner' = IF ok THEN r.state.owner ELSE tokenOwner
          /\ tokenURIs' = IF ok THEN r.state.uris ELSE tokenURIs
          /\ calls' = Append(calls,
                        [caller |-> caller, recipient |-> recipient,
                         uri |-> uri, ok |-> ok, before |-> _tokenIds,
                         ret |-> r.ret, trace |-> r.state.trace])

NftNext == MintNFT

(***************************************************************************)
(* Front matter of the blog posts.  Each block gives the text after        *)
(* "title: ", "date: " and "tags: ", one character per element.            *)
(***************************************************************************)
\* src/data/blog/microservices-with-go-and-rabbitmq.md, lines 1-7
FmMicroservices ==
  [title |-> <<
     "I", "m", "p", "l", "e", "m", "e", "n", "t", "i", "n", "g", " ", "S",
     "i", "m", "p", "l", "e", " ", "M", "i", "c", "r", "o", "s", "e", "r",
     "v", "i", "c", "e", "s", " ", "w", "i", "t", "h", " ", "G", "o", " ",
     "a", "n", "d", " ", "R", "a", "b", "b", "i", "t", "M", "Q", " ", "i",
     "n", " ", "e", "C", "o", "m", "m", "e", "r", "c", "e">>,
   date |-> <<
     "'", "2", "0", "2", "3", "-", "0", "5", "-", "2", "3", "'">>,
   tags |-> <<
     "[", "'", "G", "o", "'", ",", " ", "'", "N", "o", "d", "e", ".", "j",
     "s", "'", ",", " ", "'", "D", "o", "c", "k", "e", "r", "'", ",", " ",
     "'", "R", "a", "b", "b", "i", "t", "M", "Q", "'", ",", " ", "'", "M",
     "i", "c", "r", "o", "s", "e", "r", "v", "i", "c", "e", "s", "'", "]">>]

\* src/data/blog/creating-an-NFT.md, lines 1-6
FmCreatingNFT ==
  [title |-> <<
     "'", "H", "o", "w", " ", "t", "o", " ", "D", "e", "p", "l", "o", "y",
     " ", "T", "o", "k", "e", "n", "s", " ", "(", "N", "F", "T", "s", ")",
     " ", "o", "n", " ", "t", "h", "e", " ", "E", "t", "h", "e", "r", "e",
     "u", "m", " ", "N", "e", "t", "w", "o", "r", "k", "'">>,
   date |-> <<
     "'", "2", "0", "2", "3", "-", "0", "7", "-", "0", "3", "'">>,
   tags |-> <<
     "[", "'", "B", "l", "o", "c", "k", "c", "h", "a", "i", "n", "'", ",",
     " ", "'", "E", "t", "h", "e", "r", "e", "u", "m", "'", ",", " ", "'",
     "N", "F", "T", "s", "'", "]">>]

\* src/unnamed/part_000, lines 1-6
FmPart000a ==
  [title |-> <<
     "'", "H", "o", "w", " ", "t", "o", " ", "D", "e", "p", "l", "o", "y",
     " ", "T", "o", "k", "e", "n", "s", " ", "(", "N", "F", "T", "s", ")",
     " ", "o", "n", " ", "t", "h", "e", " ", "E", "t", "h", "e", "r", "e",
     "u", "m", " ", "N", "e", "t", "w", "o", "r", "k", "'">>,
   date |-> <<
     "'", "2", "0", "2", "3", "-", "0", "7", "-", "0", "3", "'">>,
   tags |-> <<
     "[", "'", "B", "l", "o", "c", "k", "c", "h", "a", "i", "n", "'", ",",
     " ", "'", "E", "t", "h", "e", "r", "e", "u", "m", "'", ",", " ", "'",
     "N", "F", "T", "s", "'", "]">>]

\* src/unnamed/part_000, lines 51-57
FmPart000b ==
  [title |-> <<
     "A", "u", "t", "o", "M", "L", " ", "a", "n", "d", " ", "N", "e", "u",
     "r", "a", "l", " ", "A", "r", "c", "h", "i", "t", "e", "c", "t", "u",
     "r", "e", " ", "S", "e", "a", "r", "c", "h", ".", " ">>,
   date |-> <<
     "'", "2", "0", "2", "3", "-", "0", "7", "-", "0", "6", "'">>,
   tags |-> <<
     "[", "'", "M", "L", "'", ",", " ", "'", "A", "I", "'", ",", " ", "'",
     "D", "e", "e", "p", " ", "L", "e", "a", "r", "n", "i", "n", "g", "'",
     "]">>]

\* src/unnamed/part_001, lines 1-7
FmPart001 ==
  [title |-> <<
     "A", "u", "t", "o", "M", "L", " ", "a", "n", "d", " ", "N", "e", "u",
     "r", "a", "l", " ", "A", "r", "c", "h", "i", "t", "e", "c", "t", "u",
     "r", "e", " ", "S", "e", "a", "r", "c", "h", ".">>,
   date |-> <<
     "'", "2", "0", "2", "3", "-", "0", "7", "-", "0", "6", "'">>,
   tags |-> <<
     "[", "'", "M", "L", "'", ",", " ", "'", "A", "I", "'", ",", " ", "'",
     "D", "e", "e", "p", " ", "L", "e", "a", "r", "n", "i", "n", "g", "'",
     "]">>]

\* src/unnamed/part_002, lines 1-7
FmPart002 ==
  [title |-> <<
     "A", "n", " ", "I", "n", "-", "D", "e", "p", "t", "h", " ", "E", "x",
     "p", "l", "o", "r", "a", "t", "i", "o", "n", " ", "o", "f", " ", "D",
     "a", "t", "a", " ", "A", "n", "a", "l", "y", "s", "i", "s", " ", "-",
     " ", "M", "e", "c", "h", "a", "n", "i", "s", "m", "s", " ", "o", "f",
     " ", "D", "a", "t", "a", " ", "I", "n", "g", "e", "s", "t", "i", "o",
     "n">>,
   date |-> <<
     "'", "2", "0", "2", "3", "-", "0", "6", "-", "0", "4", "'">>,
   tags |-> <<
     "[", "'", "P", "y", "t", "h", "o", "n", "'", ",", " ", "'", "D", "a",
     "t", "a", " ", "a", "n", "a", "l", "y", "s", "i", "s", "'", ",", " ",
     "'", "P", "a", "n", "d", "a", "s", "'", " ", "'", "D", "a", "t", "a",
     " ", "i", "n", "g", "e", "s", "t", "i", "o", "n", "'", ",", " ", "'",
     "D", "a", "t", "a", " ", "E", "n", "g", "i", "n", "e", "e", "r", "i",
     "n", "g", "'", "]">>]

Posts == <<FmMicroservices, FmCreatingNFT, FmPart000a, FmPart000b, FmPart001,
           FmPart002>>

(***************************************************************************)
(* The front-matter reader: it reads the values of title, date and tags    *)
(* of each post, a character at a time, as YAML.                           *)
(***************************************************************************)
Fields == <<"title", "date", "tags">>
Digits == {"0", "1", "2", "3", "4", "5", "6", "7", "8", "9"}

\* 'YYYY-MM-DD' in single quotes; D stands for a digit
DatePattern == <<"'", "D", "D", "D", "D", "-", "D", "D", "-", "D", "D", "'">>

\* plain scalars that YAML does not read as strings
Keywords ==
  { <<"t", "r", "u", "e">>, <<"f", "a", "l", "s", "e">>,
    <<"n", "u", "l", "l">>, <<"~">> }

StartLex == [s |-> "start", n |-> 0]
Bad == [s |-> "bad", n |-> 0]

\* after the closing quote of an item, or inside a plain item, of a list
AfterItem(st, ch) ==
  CASE ch = "," -> [s |-> "item", n |-> st.n]
    [] ch = "]" -> [s |-> "end", n |-> st.n]
    [] ch = " " -> [s |-> "after", n |-> st.n]
    [] OTHER -> Bad

\* a flow sequence of strings: [ item , item ... ]
TagsStep(st, ch) ==
  CASE st.s = "start" ->
         IF ch = "[" THEN [s |-> "open", n |-> 0]
         ELSE IF ch = " " THEN st ELSE Bad
    [] st.s \in {"open", "item"} ->
         IF ch = "'" THEN [s |-> "str", n |-> st.n + 1]
         ELSE IF ch = " " THEN st
         ELSE IF ch = "]" /\ st.s = "open" THEN [s |-> "end", n |-> st.n]
         ELSE IF ch \in {",", "]", "[", "{", "}"} THEN Bad
         ELSE [s |-> "plain", n |-> st.n + 1]
    [] st.s = "str" ->
         IF ch = "'" THEN [s |-> "quote", n |-> st.n] ELSE st
    [] st.s = "quote" ->
         IF ch = "'" THEN [s |-> "str", n |-> st.n] ELSE AfterItem(st, ch)
    [] st.s = "after" -> AfterItem(st, ch)
    [] st.s = "plain" ->
         IF ch \in {",", "]"} THEN AfterItem(st, ch)
         ELSE IF ch \in {"'", "[", "{", "}"} THEN Bad ELSE st
    [] st.s = "end" -> IF ch = " " THEN st ELSE Bad
    [] OTHER -> Bad

DateStep(st, ch) ==
  CASE st.s = "bad" -> Bad
    [] st.n = Len(DatePattern) -> IF ch = " " THEN st ELSE Bad
    [] DatePattern[st.n + 1] = "D" ->
         IF ch \in Digits THEN [s |-> "date", n |-> st.n + 1] ELSE Bad
    [] OTHER ->
         IF ch = DatePattern[st.n + 1] THEN [s |-> "date", n |-> st.n + 1]
         ELSE Bad

\* a single-quoted scalar or a plain scalar
TitleStep(st, ch) ==
  CASE st.s = "start" ->
         IF ch = " " THEN st
         ELSE IF ch = "'" THEN [s |-> "str", n |-> 0]
         ELSE IF ch \in Digits THEN [s |-> "num", n |-> 1]
         ELSE IF ch \in {"[", "]", "{", "}", ",", "#", "&", "*", "!", "|",
                         ">", "%", "@"}
         THEN Bad
         ELSE [s |-> "plain", n |-> 1]
    [] st.s = "str" ->
         IF ch = "'" THEN [s |-> "quote", n |-> st.n]
         ELSE [s |-> "str", n |-> st.n + 1]
    [] st.s = "quote" ->
         IF ch = "'" THEN [s |-> "str", n |-> st.n + 1]
         ELSE IF ch = " " THEN [s |-> "closed", n |-> st.n]
         ELSE Bad
    [] st.s = "closed" -> IF ch = " " THEN st ELSE Bad
    [] st.s = "num" ->
         IF ch \in Digits \cup {".", " "} THEN st
         ELSE [s |-> "plain", n |-> st.n + 1]
    [] st.s = "plain" ->
         IF ch = ":" THEN [s |-> "colon", n |-> st.n] ELSE st
    [] st.s = "colon" ->
         IF ch = " " THEN Bad
         ELSE IF ch = ":" THEN st
         ELSE [s |-> "plain", n |-> st.n]
    [] OTHER -> Bad

Step(f, st, ch) ==
  CASE f = "title" -> TitleStep(st, ch)
    [] f = "date" -> DateStep(st, ch)
    [] OTHER -> TagsStep(st, ch)

\* the value without the spaces at its end
RECURSIVE Trim(_)
Trim(v) ==
  IF v # <<>> /\ v[Len(v)] = " " THEN Trim(SubSeq(v, 1, Len(v) - 1)) ELSE v

\* the scanner state at the end of a value is that of a well-formed value
Accept(f, st, v) ==
  CASE f = "title" ->
         \/ st.s \in {"quote", "closed"}
         \/ st.s = "plain" /\ Trim(v) \notin Keywords
    [] f = "date" -> st.s = "date" /\ st.n = Len(DatePattern)
    [] OTHER -> st.s = "end"

NumPosts == Len(Posts)

FmInit ==
  /\ post = 1
  /\ field = 1
  /\ pos = 0
  /\ lex = StartLex
  /\ verdict = [i \in 1..NumPosts |-> [f \in {"title", "date", "tags"} |-> "unread"]]

\* the value being read
Value == Posts[post][Fields[field]]

ReadChar ==
  /\ post <= NumPosts
  /\ pos < Len(Value)
  /\ pos' = pos + 1
  /\ lex' = Step(Fields[field], lex, Value[pos + 1])
  /\ UNCHANGED <<post, field, verdict>>

EndValue ==
  /\ post <= NumPosts
  /\ pos = Len(Value)
  /\ verdict' = [verdict EXCEPT ![post][Fields[field]] =
                   IF Accept(Fields[field], lex, Value) THEN "ok" ELSE "bad"]
  /\ pos' = 0
  /\ lex' = StartLex
  /\ IF field < Len(Fields)
     THEN field' = field + 1 /\ post' = post
     ELSE field' = 1 /\ post' = post + 1

FmNext == ReadChar \/ EndValue

(***************************************************************************)
(* The content data arrays.  The link of an entry (href, url) is given     *)
(* one character per element, the other fields as strings.                 *)
(***************************************************************************)
\* src/data/projectsData.js, lines 2-8
Project1 ==
  [ title |->
      "NFT Collection",
    description |->
      "A simple Whatsapp bot for guiding students built with Twilio as the messaging client, \n    Google's Dialog flow for intent filtering, and runs on a Node.js server.",
    imgSrc |->
      "/static/images/projects/bot.png",
    href |-> <<
      "h", "t", "t", "p", "s", ":", "/", "/", "g", "i", "t", "h", "u", "b",
      ".", "c", "o", "m", "/", "o", "n", "d", "i", "e", "k", "e", "l", "i",
      "j", "a", "h", "/", "S", "t", "u", "d", "e", "n", "t", "_", "a", "s",
      "s", "i", "s", "t", "a", "n", "t", "_", "b", "o", "t">> ]

\* src/data/projectsData.js, lines 9-16
Project2 ==
  [ title |->
      "ARM  robot in Matlab",
    description |->
      "An e-commerce API that runs on a Node.js server and uses GraphQL as a \n    query language. Optimizes \n    CRUD operation queries and provides support for product reviews and ratings..",
    imgSrc |->
      "/static/images/projects/graphql-api.png",
    href |-> <<
      "h", "t", "t", "p", "s", ":", "/", "/", "g", "i", "t", "h", "u", "b",
      ".", "c", "o", "m", "/", "o", "n", "d", "i", "e", "k", "e", "l", "i",
      "j", "a", "h", "/", "G", "r", "a", "p", "h", "Q", "L", "-", "e", "-",
      "c", "o", "m", "m", "e", "r", "c", "e", "-", "A", "P", "I">> ]

\* src/data/projectsData.js, lines 17-24
Project3 ==
  [ title |->
      "AWS Serverless Expense Tracker API",
    description |->
      "A serverless AWS expense tracker API. AWS Lambda functions, API gateway, \n    and Dynamodb are among the components. \n    Supports basic CRUD operations made possible by AWS lambda functions. Built with Node.js.",
    imgSrc |->
      "/static/images/projects/aws-serverless-api.png",
    href |-> <<
      "h", "t", "t", "p", "s", ":", "/", "/", "g", "i", "t", "h", "u", "b",
      ".", "c", "o", "m", "/", "o", "n", "d", "i", "e", "k", "e", "l", "i",
      "j", "a", "h", "/", "A", "W", "S", "-", "S", "e", "r", "v", "e", "r",
      "l", "e", "s", "s", "-", "A", "P", "I">> ]

\* src/data/projectsData.js, lines 25-32
Project4 ==
  [ title |->
      "Social Media API",
    description |->
      "A social media API that manages user account creation with access tokens, \n    post creation, update, and deletion, \n    as well as upvotes and downvotes. Built with FastAPI and powered by a Postgres database..",
    imgSrc |->
      "/static/images/projects/social-media-api.png",
    href |-> <<
      "h", "t", "t", "p", "s", ":", "/", "/", "g", "i", "t", "h", "u", "b",
      ".", "c", "o", "m", "/", "o", "n", "d", "i", "e", "k", "e", "l", "i",
      "j", "a", "h", "/", "S", "o", "c", "i", "a", "l", "-", "M", "e", "d",
      "i", "a", "-", "A", "p", "p", "-", "A", "P", "I">> ]

\* src/data/projectsData.js, lines 33-40
Project5 ==
  [ title |->
      "Bookmarks Manager API",
    description |->
      "A bookmark manager API that allows for simple bookmark management. \n    User creation and authentication with access tokens, adding bookmarks, updating, deleting, and viewing existing \n    bookmarks are all features. It also offers bookmark link visit tracking and statistics.",
    imgSrc |->
      "/static/images/projects/bookmarks-api.png",
    href |-> <<
      "h", "t", "t", "p", "s", ":", "/", "/", "g", "i", "t", "h", "u", "b",
      ".", "c", "o", "m", "/", "o", "n", "d", "i", "e", "k", "e", "l", "i",
      "j", "a", "h", "/", "B", "o", "o", "k", "m", "a", "r", "k", "s", "A",
      "P", "I">> ]

\* src/data/projectsData.js, lines 41-47
Project6 ==
  [ title |->
      "Threaded Replies App",
    description |->
      "A Python Flask app with a MySQL database that implements a\n     nested/threaded replies commenting engine. SQLAlchemy is used as the ORM.",
    imgSrc |->
      "/static/images/projects/threaded-replies.png",
    href |-> <<
      "h", "t", "t", "p", "s", ":", "/", "/", "g", "i", "t", "h", "u", "b",
      ".", "c", "o", "m", "/", "o", "n", "d", "i", "e", "k", "e", "l", "i",
      "j", "a", "h", "/", "T", "h", "r", "e", "a", "d", "e", "d", "-", "R",
      "e", "p", "l", "i", "e", "s", "-", "u", "s", "i", "n", "g", "-", "F",
      "l", "a", "s", "k", "-", "S", "Q", "L", "A", "l", "c", "h", "e", "m",
      "y", "-", "M", "y", "S", "Q", "L">> ]

\* src/data/projectsData.js, lines 48-53
Project7 ==
  [ title |->
      "Olycoin",
    description |->
      "A Crpto token meant to revolutionize financial sector in Africa, It's one of the most growing tokes and being traded in Africa.",
    imgSrc |->
      "/static/images/projects/web-scrapper.png",
    href |-> <<
      "h", "t", "t", "p", "s", ":", "/", "/", "g", "i", "t", "h", "u", "b",
      ".", "c", "o", "m", "/", "c", "h", "e", "g", "e", "a", "n", "t", "h",
      "o", "n", "y", "/", "O", "L", "Y", "C", "O", "I", "N">> ]

\* src/data/projectsData.js, lines 54-59
Project8 ==
  [ title |->
      "Nft Marker place Website",
    description |->
      "Official market-place website of NFTs,(Credit ~ Cris).",
    imgSrc |->
      "/static/images/projects/memaafrica.png",
    href |-> <<
      "h", "t", "t", "p", "s", ":", "/", "/", "w", "w", "w", ".", "m", "e",
      "m", "a", "a", "f", "r", "i", "c", "a", ".", "c", "o", "m", "/">> ]

\* src/data/projectsData.js, lines 60-65
Project9 ==
  [ title |->
      "Olyix Technologies Website",
    description |->
      "Official website for Itesyl Technologies, a fintech company that provides real estate banking services.",
    imgSrc |->
      "/static/images/projects/itesyl.png",
    href |-> <<
      "h", "t", "t", "p", "s", ":", "/", "/", "o", "l", "y", "i", "x", ".",
      "c", "o", "m", "/">> ]

\* src/data/projectsData.js, lines 66-71
Project10 ==
  [ title |->
      "Kodeec Website",
    description |->
      "Kodeec mobile app website. Kodeec is a simple, secure, real estate banking app by Itesyl Technologies.",
    imgSrc |->
      "/static/images/projects/kodeec.png",
    href |-> <<
      "h", "t", "t", "p", "s", ":", "/", "/", "k", "o", "d", "e", "e", "c",
      ".", "n", "e", "t", "l", "i", "f", "y", ".", "a", "p", "p", "/">> ]

projectsData ==
  <<Project1, Project2, Project3, Project4, Project5, Project6, Project7,
    Project8, Project9, Project10>>

\* src/unnamed/part_003, lines 2-14
Experience1 ==
  [ title |->
      "Author",
    company |->
      "Educative Inc",
    location |->
      "Remote, Kenya",
    range |->
      "February 2023 - Present",
    url |-> <<
      "h", "t", "t", "p", "s", ":", "/", "/", "w", "w", "w", ".", "e", "d",
      "u", "c", "a", "t", "i", "v", "e", ".", "i", "o", "/">>,
    text1 |->
      "Creating high-quality educational content that is designed to help learners improve their skills and knowledge in various fields.",
    text2 |->
      "Contributing to the development of comprehensive courses that are tailored to meet the needs of learners at different levels, from beginners to advanced learners.",
    text3 |->
      "Through my work at Educative.io, I am committed to empowering individuals and organizations with the knowledge and skills they need to succeed in a rapidly changing world." ]

\* src/unnamed/part_003, lines 15-26
Experience2 ==
  [ title |->
      "Technical Writer",
    company |->
      "Draft.dev",
    location |->
      "Remote, Kenya",
    range |->
      "February 2023 - Present",
    url |-> <<
      "h", "t", "t", "p", "s", ":", "/", "/", "d", "r", "a", "f", "t", ".",
      "d", "e", "v", "/">>,
    text1 |->
      "Creating articles that focus on automation testing.",
    text2 |->
      "Researching and writing high-quality content that provides valuable insights into the latest trends and best practices in automation testing.",
    text3 |->
      "Working closely with subject matter experts and other stakeholders to ensure my articles are accurate, informative, and engaging." ]

\* src/unnamed/part_003, lines 28-39
Experience3 ==
  [ title |->
      "Machine Learning lead",
    company |->
      "Kirinyaga University",
    location |->
      "Kenya",
    range |->
      "January 2022 - Present",
    url |-> <<
      "h", "t", "t", "p", "s", ":", "/", "/", "k", "y", "u", ".", "a", "c",
      ".", "k", "e", "/">>,
    text1 |->
      "Responsible for leading Machine learning Club applications utilising Python and JavaScript frameworks and writing integration tests using Pytest and Jest.",
    text2 |->
      "Integrating applications with CircleCI for automated builds and tests.",
    text3 |->
      "Documenting steps taken in making an application, testing, and Integrating with CircleCI." ]

\* experienceData whose last entry links to a path of the site
experienceData_relativeUrl ==
  <<Experience1, Experience2,
    [Experience3 EXCEPT !.url = <<"/", "a", "b", "o", "u", "t">>]>>

experienceData ==
  <<Experience1, Experience2, Experience3>>

\* the arrays the data modules export, with the key of the link of an entry
\* and the keys an entry has
DataArrays == <<projectsData, experienceData>>
LinkKey == <<"href", "url">>
EntryKeys ==
  << {"title", "description", "imgSrc", "href"},
     {"title", "company", "location", "range", "url", "text1", "text2",
      "text3"} >>

(***************************************************************************)
(* The reader of the data arrays: for each entry it looks at the keys and  *)
(* the values, then reads the link a character at a time as a URL.         *)
(***************************************************************************)
EntryStart == [s |-> "entry", n |-> 0]

\* an absolute URL: http or https, "://", then a host
UrlStep(st, ch) ==
  CASE st.s = "scheme" /\ st.n < 4 ->
         IF ch = <<"h", "t", "t", "p">>[st.n + 1]
         THEN [s |-> "scheme", n |-> st.n + 1] ELSE Bad
    [] st.s = "scheme" ->
         IF ch = "s" THEN [s |-> "secure", n |-> 0]
         ELSE IF ch = ":" THEN [s |-> "slashes", n |-> 0] ELSE Bad
    [] st.s = "secure" ->
         IF ch = ":" THEN [s |-> "slashes", n |-> 0] ELSE Bad
    [] st.s = "slashes" ->
         IF ch # "/" THEN Bad
         ELSE IF st.n = 0 THEN [s |-> "slashes", n |-> 1]
         ELSE [s |-> "host", n |-> 0]
    [] st.s = "host" ->
         IF ch \in {"/", " ", ":", "?", "#"} THEN Bad
         ELSE [s |-> "url", n |-> 1]
    [] st.s = "url" -> IF ch = " " THEN Bad ELSE st
    [] OTHER -> Bad

DataInit ==
  /\ arr = 1
  /\ entry = 1
  /\ upos = 0
  /\ ulex = EntryStart
  /\ checked = [a \in 1..Len(DataArrays) |->
                  [e \in 1..Len(DataArrays[a]) |->
                     [keys |-> "unread", values |-> "unread", link |-> "unread"]]]

\* the entry being read and its link
Entry == DataArrays[arr][entry]
Link == Entry[LinkKey[arr]]

\* the keys of the entry are the expected ones; every value is a string
\* that is not empty
ReadEntry ==
  /\ arr <= Len(DataArrays)
  /\ ulex = EntryStart
  /\ checked' =
       [checked EXCEPT ![arr][entry] =
          [keys |-> IF DOMAIN Entry = EntryKeys[arr] THEN "ok" ELSE "bad",
           values |-> IF \A k \in DOMAIN Entry :
                           IF k = LinkKey[arr] THEN Entry[k] # <<>>
                           ELSE Entry[k] # ""
                      THEN "ok" ELSE "bad",
           link |-> "unread"]]
  /\ ulex' = [s |-> "scheme", n |-> 0]
  /\ UNCHANGED <<arr, entry, upos>>

ReadLinkChar ==
  /\ arr <= Len(DataArrays)
  /\ ulex # EntryStart
  /\ upos < Len(Link)
  /\ upos' = upos + 1
  /\ ulex' = UrlStep(ulex, Link[upos + 1])
  /\ UNCHANGED <<arr, entry, checked>>

EndLink ==
  /\ arr <= Len(DataArrays)
  /\ ulex # EntryStart
  /\ upos = Len(Link)
  /\ checked' = [checked EXCEPT ![arr][entry].link =
                   IF ulex.s = "url" THEN "ok" ELSE "bad"]
  /\ upos' = 0
  /\ ulex' = EntryStart
  /\ IF entry < Len(DataArrays[arr])
     THEN entry' = entry + 1 /\ arr' = arr
     ELSE entry' = 1 /\ arr' = arr + 1

DataNext == ReadEntry \/ ReadLinkChar \/ EndLink

(***************************************************************************)
(* Specifications                                                          *)
(***************************************************************************)
Init == SvcInit /\ NftInit /\ FmInit /\ DataInit

\* the two services and the broker
Next == SvcNext /\ UNCHANGED <<nftVars, fmVars, dataVars>>
Spec == Init /\ [][Next]_vars

\* the steps of the two processes and of the broker, which the Go scheduler
\* and the broker keep taking; requests and client messages may stop coming
ProductMain == PsDial \/ PsChannel \/ PsQueueDeclare \/ PsRoutes \/ PsRun
OrderMain ==
  OsDial \/ OsChannel \/ OsQueueDeclare \/ OsConsume \/ OsGo \/ OsRoutes \/ OsRun
ConsumerLoop == ConRecv \/ ConUnmarshal \/ ConCreate \/ ConPublish

SpecFair ==
  /\ Spec
  /\ WF_vars(ProductMain /\ UNCHANGED <<nftVars, fmVars, dataVars>>)
  /\ WF_vars(OrderMain /\ UNCHANGED <<nftVars, fmVars, dataVars>>)
  /\ WF_vars(ConsumerLoop /\ UNCHANGED <<nftVars, fmVars, dataVars>>)
  /\ WF_vars(Deliver /\ UNCHANGED <<nftVars, fmVars, dataVars>>)

\* the MyNFT contract
NextNft == NftNext /\ UNCHANGED <<svcVars, fmVars, dataVars>>
SpecNft == Init /\ [][NextNft]_vars

\* the front-matter reader
NextFm == FmNext /\ UNCHANGED <<svcVars, nftVars, dataVars>>
SpecFm == Init /\ [][NextFm]_vars

\* the reader of the data arrays
NextData == DataNext /\ UNCHANGED <<svcVars, nftVars, fmVars>>
SpecData == Init /\ [][NextData]_vars

(***************************************************************************)
(* Properties                                                              *)
(***************************************************************************)
\* the text is a JSON array of product IDs
IsIDArray(j) == j.t = "arr" /\ \A i \in 1..Len(j.a) : j.a[i].t = "str"

\* the positions on order-service-queue of the orders published for a delivery
OrdersFor(tag) == {i \in 1..Len(queue[OQ]) : queue[OQ][i].tag = tag}

\* the deliveries whose loop iteration ran to its end
Handled ==
  IF cpc = "recv" THEN received
  ELSE IF cpc \in {"unmarshal", "create", "publish"}
  THEN SubSeq(received, 1, Len(received) - 1)
  ELSE <<>>

C4_PostOrderOutcome ==
  lastHttp.route = "POST /order" =>
    LET b == BindOrder(orderGo, lastHttp.req)
    IN IF b.err
       THEN /\ lastHttp.status = 400
            /\ lastHttp.calls = <<>>
            /\ "order" \notin DOMAIN lastHttp.body.o
       ELSE /\ lastHttp.status = 200
            /\ Len(lastHttp.calls) = 1
            /\ lastHttp.calls[1].fn = "createOrder"
            /\ lastHttp.calls[1].arg.ID = b.val.ID
            /\ lastHttp.calls[1].arg.ProductIDs = b.val.ProductIDs
            /\ lastHttp.calls[1].arg.Status = b.val.Status
            /\ lastHttp.body.o["order"] = MarshalOrder(lastHttp.calls[1].ret)

\* both outcomes of POST /order have happened: this state holds a 400
C4_Witness ==
  /\ lastHttp.route = "POST /order"
  /\ lastHttp.status = 400
  /\ lastHttp.req.t = "obj"

\* the text of key k of a request body, zero when the body has no key k
ReqField(req, k, zero) == IF k \in DOMAIN req.o THEN req.o[k] ELSE zero

\* C5: a POST /product request whose body cannot be bound to a Product is
\* answered 400 with an error and createProduct is not called; any other is
\* answered 200, createProduct is called once, and the product of the
\* response has the ID, Name, Description and Price of the request body
\* (the zero value for a key the body does not give).
C5_PostProductOutcome ==
  lastHttp.route = "POST /product" =>
    IF BindProduct(lastHttp.req).err
    THEN /\ lastHttp.status = 400
         /\ DOMAIN lastHttp.body.o = {"error"}
         /\ lastHttp.calls = <<>>
    ELSE /\ lastHttp.status = 200
         /\ Len(lastHttp.calls) = 1
         /\ lastHttp.calls[1].fn = "createProduct"
         /\ lastHttp.body.o["id"] = ReqField(lastHttp.req, "id", JStr(""))
         /\ lastHttp.body.o["name"] = ReqField(lastHttp.req, "name", JStr(""))
         /\ lastHttp.body.o["description"] =
              ReqField(lastHttp.req, "description", JStr(""))
         /\ lastHttp.body.o["price"] = ReqField(lastHttp.req, "price", JNum(0))

\* a product with a name and a description was created
C5_Witness ==
  /\ lastHttp.route = "POST /product"
  /\ lastHttp.status = 200
  /\ lastHttp.body.o["name"] = JStr("n1")
  /\ lastHttp.body.o["description"] = JStr("d1")

\* the order in which main of a service performs its start-up steps
StartOrder(s) ==
  IF s = "product"
  THEN <<"connect", "channel", "declare", "routes", "serve">>
  ELSE <<"connect", "channel", "declare", "consume", "routes", "serve">>

IsPrefix(a, b) == Len(a) <= Len(b) /\ a = SubSeq(b, 1, Len(a))

\* the position of main of a service
PcOf(s) == IF s = "product" THEN ps ELSE os

\* the positions of main at a call to RabbitMQ
RabbitSteps == {"dial", "channel", "declare", "consume"}

\* C8: the start-up steps a service has completed are always a prefix of
\* connect, channel, declare, (consume,) routes, serve, and a serving service
\* has completed all of them; a RabbitMQ step of main either completes or
\* ends the process; and a process that has ended stays ended and completes
\* no further step, so its HTTP server is never started.
C8_StartupOrder ==
  /\ [](\A s \in {"product", "order"} :
          /\ IsPrefix(steps[s], StartOrder(s))
          /\ PcOf(s) = "serving" => steps[s] = StartOrder(s))
  /\ [](cpc # "off" => Len(steps["order"]) >= 4)
  /\ [][\A s \in {"product", "order"} :
          /\ (PcOf(s) \in RabbitSteps /\ PcOf(s)' # PcOf(s)) =>
               (steps'[s] # steps[s] \/ PcOf(s)' = "dead")
          /\ PcOf(s) = "dead" => (PcOf(s)' = "dead" /\ steps'[s] = steps[s])]_vars

\* the order service failed to register its consumer and has ended, while
\* the product service is serving
C8_Witness ==
  /\ os = "dead"
  /\ steps["order"] = <<"connect", "channel", "declare">>
  /\ ps = "serving"

\* C9: the Order createOrder returns has the ID, ProductIDs and Status it
\* was given, and has the four fields ID, ProductIDs, Status and CreatedAt.
C9_CreateOrderFourFields ==
  /\ (lastHttp.route = "POST /order" /\ lastHttp.status = 200) =>
       /\ lastHttp.calls[1].ret.ID = lastHttp.calls[1].arg.ID
       /\ lastHttp.calls[1].ret.ProductIDs = lastHttp.calls[1].arg.ProductIDs
       /\ lastHttp.calls[1].ret.Status = lastHttp.calls[1].arg.Status
       /\ DOMAIN lastHttp.calls[1].ret = {"ID", "ProductIDs", "Status", "CreatedAt"}
  /\ cpc = "publish" =>
       /\ order.ID = "1"
       /\ order.ProductIDs = productIDs
       /\ order.Status = "CREATED"
       /\ DOMAIN order = {"ID", "ProductIDs", "Status", "CreatedAt"}

\* the most recent mintNFT call
LastCall == calls[Len(calls)]

\* C6: a successful mintNFT(recipient, tokenURI) increments _tokenIds, then
\* mints the token whose ID is the new counter value to recipient, then sets
\* that token's URI to tokenURI, and returns that ID; right after the call
\* the token is owned by recipient and has the URI tokenURI.
C6_MintSteps ==
  (calls # <<>> /\ LastCall.ok) =>
    LET id == LastCall.before + 1
    IN /\ LastCall.trace =
            << [op |-> "increment", value |-> id],
               [op |-> "mint", to |-> LastCall.recipient, id |-> id],
               [op |-> "setTokenURI", id |-> id, uri |-> LastCall.uri] >>
       /\ LastCall.ret = id
       /\ _tokenIds = id
       /\ id \in DOMAIN tokenOwner /\ tokenOwner[id] = LastCall.recipient
       /\ id \in DOMAIN tokenURIs /\ tokenURIs[id] = LastCall.uri

\* a second token was just minted, to bob
C6_Witness ==
  /\ calls # <<>>
  /\ LastCall.ok
  /\ LastCall.ret = 2
  /\ LastCall.recipient = "bob"

\* the successful mintNFT calls, in order
Minted == SelectSeq(calls, LAMBDA c : c.ok)

\* C7: the i-th successful mintNFT call returns i, so the returned IDs are
\* pairwise distinct, strictly increasing and start at 1; after n
\* successful calls _tokenIds is n and exactly the tokens 1..n exist.
C7_UniqueIds ==
  /\ \A i \in 1..Len(Minted) : Minted[i].ret = i
  /\ \A i, j \in 1..Len(Minted) : i < j => Minted[i].ret < Minted[j].ret
  /\ _tokenIds = Len(Minted)
  /\ DOMAIN tokenOwner = 1..Len(Minted)
  /\ DOMAIN tokenURIs = 1..Len(Minted)

\* two tokens were minted and a call in between was reverted
C7_Witness ==
  /\ Len(calls) = 3
  /\ calls[1].ok /\ ~calls[2].ok /\ calls[3].ok

\* POST /product was just answered 200 for a product with this ID
ProductCreated(id) ==
  /\ lastHttp.route = "POST /product"
  /\ lastHttp.status = 200
  /\ lastHttp.body.o["id"] = JStr(id)

\* the body is an array of product IDs with id among them
Carries(body, id) ==
  IsIDArray(body) /\ \E i \in 1..Len(body.a) : body.a[i] = JStr(id)

\* C2: a product created through POST /product leads to a message carrying
\* its ID on product-service-queue.
C2_ProductReachesQueue ==
  \A id \in {"p1", "p2"} :
    ProductCreated(id) ~>
      (\E i \in 1..Len(published) : Carries(published[i], id))

\* the message with this tag is on product-service-queue
InPQ(tag) == \E i \in 1..Len(queue[PQ]) : queue[PQ][i].tag = tag

\* the consumer goroutine has received the message with this tag
Received(tag) == \E k \in 1..Len(received) : received[k].tag = tag

\* the order-service process has ended
OsEnded == os \in {"dead", "exited"}

\* C3: every message on product-service-queue, the queue the order service
\* has a consumer on, is eventually delivered to the order service.
C3_DeliveredToAll ==
  \A tag \in 1..MaxMsgs : (consumer /\ InPQ(tag)) ~> Received(tag)

\* C10: in every front-matter block that was read, title is a string, date
\* is a 'YYYY-MM-DD' string and tags is a well-formed list of strings.
C10_FrontMatterWellFormed ==
  \A i \in 1..NumPosts :
    \A f \in {"title", "date", "tags"} : verdict[i][f] # "bad"

\* C11: every entry of projectsData has exactly the keys title, description,
\* imgSrc and href, every entry of experienceData exactly the keys title,
\* company, location, range, url, text1, text2 and text3; every value is a
\* string that is not empty; and every href and url is an absolute http or
\* https URL.
C11_DataWellFormed ==
  \A a \in 1..Len(DataArrays) :
    \A e \in 1..Len(DataArrays[a]) :
      /\ checked[a][e].keys # "bad"
      /\ checked[a][e].values # "bad"
      /\ checked[a][e].link # "bad"

\* every entry of both arrays has been read
C11_Witness ==
  /\ arr > Len(DataArrays)
  /\ \A a \in 1..Len(DataArrays) :
       \A e \in 1..Len(DataArrays[a]) :
         /\ checked[a][e].keys = "ok"
         /\ checked[a][e].values = "ok"
         /\ checked[a][e].link = "ok"

\* the delivery the consumer received last
LastReceived == received[Len(received)]

\* the order-service process has ended and nothing of it runs
OsStopped ==
  /\ os \in {"dead", "exited"}
  /\ cpc = "off"
  /\ ~consumer
  /\ msgs = <<>>

\* C13: when the body of a delivery cannot be unmarshalled, or its order
\* cannot be marshalled or published, that step ends the whole order-service
\* process and publishes nothing; an order-service process ended by
\* failOnError has no order for the delivery it received last; and once the
\* process has ended it receives no delivery, publishes no order and answers
\* no POST /order.
C13_FatalEndsProcess ==
  /\ [](os = "dead" => OsStopped)
  /\ [](os = "dead" /\ received # <<>> => OrdersFor(LastReceived.tag) = {})
  /\ [][ /\ cpc = "unmarshal" /\ UnmarshalStrings(d.body).err /\ cpc' # cpc
            => OsStopped' /\ queue' = queue
         /\ cpc = "publish" /\ cpc' # cpc
            => \/ /\ Len(queue'[OQ]) = Len(queue[OQ]) + 1
                  /\ cpc' = "recv"
                  /\ os' = os
               \/ OsStopped' /\ queue' = queue
         /\ os \in {"dead", "exited"}
            => /\ os' = os
               /\ received' = received
               /\ queue'[OQ] = queue[OQ]
               /\ lastHttp' # lastHttp => lastHttp'.route # "POST /order" ]_vars

\* the order service was serving when a delivery with a body that is no
\* array ended it, while another message was still to be handled
C13_Witness ==
  /\ os = "dead"
  /\ \E i \in 1..Len(steps["order"]) : steps["order"][i] = "serve"
  /\ Len(received) = 1
  /\ UnmarshalStrings(LastReceived.body).err
  /\ Len(published) = 2
  /\ queue[OQ] = <<>>

\* the tags of the messages of a sequence of messages
Tags(q) == [i \in 1..Len(q) |-> q[i].tag]

\* the messages still on product-service-queue, those delivered and buffered
\* in msgs, and those the loop has taken, in this order
Everywhere == Tags(received) \o Tags(msgs) \o Tags(queue[PQ])

\* C14: a message is in one place only (on product-service-queue, delivered
\* and buffered, or taken by the loop) and there only once; a delivery takes
\* the message off the queue; no message comes back to the queue; and the
\* orders published are never more than the deliveries taken by the loop,
\* also after the order service has ended.
C14_AtMostOnce ==
  /\ [](\A i, j \in 1..Len(Everywhere) :
          Everywhere[i] = Everywhere[j] => i = j)
  /\ [](Len(queue[OQ]) <= Len(received))
  /\ [][ /\ Len(msgs') > Len(msgs)
            => /\ queue'[PQ] = Tail(queue[PQ])
               /\ msgs' = Append(msgs, Head(queue[PQ]))
         /\ \A i \in 1..Len(queue'[PQ]) :
              \/ InPQ(queue'[PQ][i].tag)
              \/ queue'[PQ][i].tag = Len(published') /\ published' # published
       ]_vars

\* the order service ended after it took its second delivery, an array of
\* product IDs, and before it published the order for it
C14_Witness ==
  /\ os = "dead"
  /\ Len(received) = 2
  /\ IsIDArray(LastReceived.body)
  /\ Len(queue[OQ]) = 1
  /\ queue[PQ] = <<>>

\* C15: the loop takes the deliveries in the order of delivery, one at a
\* time: at most one delivery taken has no order yet, and the orders on
\* order-service-queue are, in this order, those of the deliveries taken
\* that have one.
C15_OrdersInDeliveryOrder ==
  /\ [](\A i, j \in 1..Len(received) :
          i < j => received[i].tag < received[j].tag)
  /\ [](Tags(queue[OQ]) =
          Tags(SelectSeq(received, LAMBDA m : OrdersFor(m.tag) # {})))
  /\ [](os \notin {"dead", "exited"} => Tags(queue[OQ]) = Tags(Handled))
  /\ [][ /\ Len(received') > Len(received)
            => /\ cpc = "recv"
               /\ received' = Append(received, Head(msgs))
         /\ Len(received') > Len(received)
            => Tags(queue[OQ]) = Tags(received)
         /\ Len(queue'[OQ]) > Len(queue[OQ])
            => Tags(queue'[OQ]) = Tags(received) ]_vars

\* two orders are on order-service-queue, for two deliveries
C15_Witness ==
  /\ Len(queue[OQ]) = 2
  /\ queue[OQ][1].tag = 1
  /\ queue[OQ][2].tag = 2
  /\ queue[OQ][1].body # queue[OQ][2].body

\* the body of the delivery the i-th order on order-service-queue was
\* published for
SourceBody(i) ==
  (CHOOSE m \in {received[k] : k \in 1..Len(received)} :
     m.tag = queue[OQ][i].tag).body

\* the JSON text of an order without its created_at member
SansTime(j) == [k \in DOMAIN j.o \ {"created_at"} |-> j.o[k]]

\* the response to a request without the created_at member of its order
ResponseSansTime(h) ==
  IF h.status = 200
  THEN [status |-> 200, message |-> h.body.o["message"],
        order |-> SansTime(h.body.o["order"])]
  ELSE [status |-> h.status, body |-> h.body]

\* C16 as stated: two POST /order requests with the same body get the same
\* response, and two orders published for deliveries with the same body are
\* the same.
C16_DependsOnlyOnBody ==
  /\ [][ /\ lastHttp.route = "POST /order"
         /\ lastHttp'.route = "POST /order"
         /\ lastHttp'.req = lastHttp.req
         => /\ lastHttp'.status = lastHttp.status
            /\ lastHttp'.body = lastHttp.body ]_vars
  /\ [](\A i, j \in 1..Len(queue[OQ]) :
          SourceBody(i) = SourceBody(j)
          => queue[OQ][i].body = queue[OQ][j].body)

\* C16 as amended: whatever the consumer goroutine is doing, two POST /order
\* requests with the same body get the same response, and two orders
\* published for deliveries with the same body are the same, but for the
\* created_at member of the order, which is the time createOrder ran.
C16_DependsOnBodyAndTime ==
  /\ [][ /\ lastHttp.route = "POST /order"
         /\ lastHttp'.route = "POST /order"
         /\ lastHttp'.req = lastHttp.req
         => ResponseSansTime(lastHttp') = ResponseSansTime(lastHttp) ]_vars
  /\ [](\A i, j \in 1..Len(queue[OQ]) :
          SourceBody(i) = SourceBody(j)
          => SansTime(queue[OQ][i].body) = SansTime(queue[OQ][j].body))

\* two orders published at different times for deliveries with the same
\* body, and a POST /order answered while the consumer goroutine runs
C16_Witness ==
  /\ Len(queue[OQ]) = 2
  /\ SourceBody(1) = SourceBody(2)
  /\ queue[OQ][1].body # queue[OQ][2].body
  /\ cpc = "recv"
  /\ lastHttp.route = "POST /order"
  /\ lastHttp.status = 200

\* the service has done this start-up step
HasDone(s, step) == \E i \in 1..Len(steps[s]) : steps[s][i] = step

\* C17 as stated: an order service that has started (it has connected) while
\* product-service-queue is not declared never serves and never takes a
\* delivery.
C17_StartedBeforeNeverRuns ==
  [](HasDone("order", "connect") /\ PQ \notin declared
     => [](os # "serving" /\ received = <<>>))

\* C17 as amended: product-service-queue is declared by the product service
\* only and order-service-queue by the order service only; when the order
\* service calls ch.Consume while product-service-queue is not declared, the
\* call fails and the process ends, having taken no delivery and answered no
\* POST /order; and the order service gets past ch.Consume only when the
\* product service has declared its queue before that call.
C17_ConsumeNeedsQueue ==
  /\ [](PQ \in declared <=> HasDone("product", "declare"))
  /\ [](OQ \in declared <=> HasDone("order", "declare"))
  /\ [][ os = "consume" /\ PQ \notin declared /\ os' # os
         => /\ os' = "dead"
            /\ ~consumer'
            /\ cpc' = "off"
            /\ received' = <<>>
            /\ lastHttp'.route # "POST /order" ]_vars
  /\ [](os = "dead" /\ ~HasDone("order", "consume")
        => received = <<>> /\ lastHttp.route # "POST /order")
  /\ [](HasDone("order", "consume") \/ consumer \/ cpc # "off"
        => HasDone("product", "declare"))

\* the order service ended at ch.Consume while the product service, still
\* running, had not declared its queue
C17_Witness ==
  /\ os = "dead"
  /\ steps["order"] = <<"connect", "channel", "declare">>
  /\ PQ \notin declared
  /\ ps \in {"dial", "channel", "declare"}

\* GET /product/:id was just answered
GotProduct == lastHttp.route = "GET /product/:id"

\* C18: every answer to GET /product/:id is 200 with a product whose id is
\* the id of the path, for an id that POST /product was given and for one it
\* was not; and the request leaves the queues, the messages and both
\* services as they were.
C18_GetProductById ==
  /\ [](GotProduct
        => /\ lastHttp.status = 200
           /\ lastHttp.body.t = "obj"
           /\ DOMAIN lastHttp.body.o = {"id", "name", "description", "price"}
           /\ lastHttp.body.o["id"] = lastHttp.req)
  /\ [][ GotProduct' /\ lastHttp' # lastHttp
         => /\ lastHttp'.req \in {JStr(id) : id \in PathIDs}
            /\ UNCHANGED <<declared, queue, published, consumer, msgs, ps, os,
                           orderGo, cpc, d, productIDs, order, received,
                           steps>> ]_vars

\* GET /product/zz was answered, and no POST /product was ever given zz
C18_Witness ==
  /\ GotProduct
  /\ lastHttp.req = JStr("zz")
  /\ \A j \in ProductBodies : j.t = "obj" => Field(j.o, "id") # JStr("zz")

Outcome(r) ==
  [ok |-> ~r.state.reverted, ret |-> r.ret, ids |-> r.state.ids,
   owner |-> r.state.owner, uris |-> r.state.uris]

\* C20: in every state of the contract, mintNFT(recipient, tokenURI) has the
\* same outcome (success, token ID, owners, URIs) whichever account sends
\* it, and it succeeds for every sender when the recipient is not the zero
\* address.
C20_AnyCaller ==
  \A recipient \in Addresses, uri \in URIs :
    /\ \A a, b \in Callers :
         Outcome(mintNFT(Call(a), recipient, uri)) =
           Outcome(mintNFT(Call(b), recipient, uri))
    /\ recipient # ZeroAddress
       => \A a \in Callers : ~mintNFT(Call(a), recipient, uri).state.reverted

\* an account that is not the deployer minted a token for another account,
\* after the deployer had minted one
C20_Witness ==
  /\ Len(calls) >= 2
  /\ calls[1].ok /\ calls[1].caller = Deployer
  /\ LastCall.ok
  /\ LastCall.caller # Deployer
  /\ LastCall.recipient # LastCall.caller
  /\ tokenOwner[LastCall.ret] = LastCall.recipient
====
